---- MODULE Spec2Model ----
(***************************************************************************)
(* Model of vito.py: the VITO emission inventory is read, converted to     *)
(* hourly fluxes on the source grid, resampled to the WRF grid and merged  *)
(* into the two 12-hour wrfchemi baseline files.                           *)
(*                                                                         *)
(* Reals are modelled as exact decimal-scaled rationals                    *)
(*     [n |-> n, d |-> d, e |-> e]   standing for   (n / d) * 10^e         *)
(* kept reduced (n, d coprime, neither a multiple of 10).  A value can have *)
(* more than one reduced form (185/21 * 10^7 = 37/42 * 10^8), so values    *)
(* are compared with REq, not with =.                                      *)
(* d = 0 encodes the two non-finite IEEE values: n = 0 is NaN (the         *)
(* "absent" value of the masked arithmetic), n = 1 is +inf.                *)
(***************************************************************************)
EXTENDS Integers, Sequences, FiniteSets, TLC

-----------------------------------------------------------------------------
(* Exact arithmetic                                                        *)

RECURSIVE GCD(_, _)
GCD(a, b) == IF b = 0 THEN a ELSE GCD(b, a % b)

LCM(a, b) == (a \div GCD(a, b)) * b

RECURSIVE Pow10(_)
Pow10(k) == IF k = 0 THEN 1 ELSE 10 * Pow10(k - 1)

NaN == [n |-> 0, d |-> 0, e |-> 0]
Inf == [n |-> 1, d |-> 0, e |-> 0]
Zero == [n |-> 0, d |-> 1, e |-> 0]

IsFinite(a) == a.d # 0
IsNaN(a) == a.d = 0 /\ a.n = 0

\* moves the factors of ten of n and of d into the exponent
RECURSIVE Strip10(_)
Strip10(a) ==
    IF a.n % 10 = 0 THEN Strip10([n |-> a.n \div 10, d |-> a.d, e |-> a.e + 1])
    ELSE IF a.d % 10 = 0 THEN Strip10([n |-> a.n, d |-> a.d \div 10, e |-> a.e - 1])
    ELSE a

Norm(a) ==
    IF a.n = 0 THEN Zero
    ELSE LET g == GCD(a.n, a.d)
         IN  Strip10([n |-> a.n \div g, d |-> a.d \div g, e |-> a.e])

RInt(i) == Norm([n |-> i, d |-> 1, e |-> 0])
Exp10(k) == [n |-> 1, d |-> 1, e |-> k]

Rat == [n : Int, d : Int, e : Int]

\* The operations are functions so that an operand is evaluated once.
RMulF[a \in Rat, b \in Rat] ==
    IF IsFinite(a) /\ IsFinite(b)
    THEN IF a.n = 0 \/ b.n = 0 THEN Zero
         ELSE LET g == GCD(a.n, b.d)
                  h == GCD(b.n, a.d)
              IN  Norm([n |-> (a.n \div g) * (b.n \div h),
                        d |-> (a.d \div h) * (b.d \div g),
                        e |-> a.e + b.e])
    ELSE IF IsNaN(a) \/ IsNaN(b) \/ a.n = 0 \/ b.n = 0 THEN NaN ELSE Inf

RDivF[a \in Rat, b \in Rat] ==
    IF IsFinite(a) /\ IsFinite(b)
    THEN IF b.n = 0
         THEN (IF a.n = 0 THEN NaN ELSE Inf)
         ELSE LET g == GCD(a.n, b.n)
                  h == GCD(a.d, b.d)
              IN  Norm([n |-> (a.n \div g) * (b.d \div h),
                        d |-> (a.d \div h) * (b.n \div g),
                        e |-> a.e - b.e])
    ELSE IF IsNaN(a) \/ IsNaN(b) \/ ~IsFinite(b) THEN
         (IF IsFinite(a) /\ ~IsNaN(b) THEN Zero ELSE NaN)
    ELSE Inf

RAddF[a \in Rat, b \in Rat] ==
    IF IsFinite(a) /\ IsFinite(b)
    THEN IF a.n = 0 THEN b
         ELSE IF b.n = 0 THEN a
         ELSE LET m == IF a.e < b.e THEN a.e ELSE b.e
                  l == LCM(a.d, b.d)
                  x == a.n * Pow10(a.e - m) * (l \div a.d)
                  y == b.n * Pow10(b.e - m) * (l \div b.d)
              IN  Norm([n |-> x + y, d |-> l, e |-> m])
    ELSE IF IsNaN(a) \/ IsNaN(b) THEN NaN ELSE Inf

RMul(a, b) == RMulF[a, b]
RDiv(a, b) == RDivF[a, b]
RAdd(a, b) == RAddF[a, b]

\* a and b are the same value (NaN taken equal to NaN, as absent to absent)
REq(a, b) ==
    \/ a = b
    \/ /\ IsFinite(a) /\ IsFinite(b) /\ b.n # 0
       /\ RDiv(a, b) = [n |-> 1, d |-> 1, e |-> 0]

\* integer part of a finite value with a non-negative exponent
Floor(a) == (a.n * Pow10(a.e)) \div a.d

\* Op(v) with v evaluated, in full, once
Eager(v, Op(_)) == CHOOSE r \in {Op(w) : w \in {u \in {v} : u = u}} : TRUE

RECURSIVE RSum(_, _)
\* sum of f[i] for i in 1..k, accumulated left to right
RSum(f, k) == IF k = 0 THEN Zero ELSE RAdd(RSum(f, k - 1), f[k])

-----------------------------------------------------------------------------
(* Module-level configuration (vito.py lines 45-70)                        *)

yyyy == 2019
minhour == 0
maxhour == 23
HoursPerDay == 24
HalfDay == 12

\* sizes of the sampled inputs
NLat == 2
NLon == 2
TRows == 2
TCols == 2
MaxEt == 24

wrf_projs == [p \in {1, 2, 3, 6} |->
                 CASE p = 1 -> "lcc" [] p = 2 -> "npstere"
                   [] p = 3 -> "merc" [] p = 6 -> "eqc"]

\* calendar.monthrange(y, m)[1]
monthrange(y, m) ==
    IF m = 2
    THEN (IF (y % 4 = 0 /\ y % 100 # 0) \/ y % 400 = 0 THEN 29 ELSE 28)
    ELSE IF m \in {4, 6, 9, 11} THEN 30 ELSE 31

\* molecular weights of read_vito, and the weight get_ds would use for PM2.5
var_dict == [name \in {"E_NO", "E_SO2"} |-> IF name = "E_NO" THEN 14 ELSE 64]
var_names == <<"E_NO", "E_SO2">>

types == <<"Industry", "Energy", "Traffic", "Residential", "Fires">>
kind == <<"Fires", "Industry", "Energy", "Residential", "Traffic">>
Kinds == {kind[x] : x \in 1..Len(kind)}

Hours == 1..HoursPerDay          \* position h holds hour h - 1
LatIdx == 1..NLat
LonIdx == 1..NLon

\* name[2:] + 'x_' / name[2:] + '_'   (read_vito and get_ds build the same prefix)
Prefix(name) == IF name = "E_NO" THEN "NOx" ELSE IF name = "E_SO2" THEN "SO2" ELSE "PM25"
SectorVar(name, k) == <<Prefix(name), k>>
species(name) == [x \in 1..Len(types) |-> SectorVar(name, types[x])]

-----------------------------------------------------------------------------
(* Sampled contents of the input files                                     *)

MissingValue == -999
TimeMonths == <<6, 7, 8>>        \* time.month of the inventory's time axis
MonthInputs == {6, 7}
MapProjInputs == {1, 4}
MethodInputs == {"nearest", "idw", "bilinear", "cubic"}
TableInputs == {"absent", "ramp", "spike", "zerocol"}
\* inventory files: sector values (ind for Industry, oth for the other sectors, the
\* sector holding a missing value), cell areas, and the offset in km of the swath
\* from the target pixel centres
DataInputs == {[ind |-> 10, oth |-> 0, miss |-> "none",     area |-> "uniform", off |-> 0],
               [ind |-> 10, oth |-> 3, miss |-> "Traffic",  area |-> "bylat",   off |-> 20],
               [ind |-> 0,  oth |-> 3, miss |-> "Industry", area |-> "uniform", off |-> 20],
               [ind |-> 10, oth |-> 3, miss |-> "none",     area |-> "bylat",   off |-> 0]}

KindIdx(k) == CHOOSE x \in 1..Len(kind) : kind[x] = k

\* one sector variable of the inventory file: [time][lat][lon]
InventoryVar(p, name, k) ==
    [t \in 1..Len(TimeMonths) |-> [i \in LatIdx |-> [j \in LonIdx |->
        IF p.miss = k /\ i = 1 /\ j = 1 THEN MissingValue
        ELSE LET base == IF k = "Industry" THEN p.ind ELSE p.oth
                 spatial == IF p.oth = 0 THEN 0 ELSE (i - 1) * NLon + (j - 1) + KindIdx(k)
                 scale == IF name = "E_NO" THEN 1 ELSE 2
             IN  scale * (base + spatial) + (t - 1)]]]

\* ds[species]: the five sector variables of one species
Inventory(p, name) == [k \in Kinds |-> InventoryVar(p, name, k)]

\* rows of hourly_factor.csv after genfromtxt: [hour][kind]
RawTable(tk) ==
    [h \in Hours |-> [k \in Kinds |->
        CASE tk = "ramp"    -> h
          [] tk = "spike"   -> IF h = KindIdx(k) THEN 3 ELSE 0
          [] tk = "zerocol" -> IF k = "Fires" THEN 0 ELSE 1
          [] OTHER          -> 1]]

\* cell areas in m^2 as calc_area leaves them in self.emi_area
AreaField(ak) ==
    [i \in LatIdx |-> [j \in LonIdx |->
        IF ak = "uniform" THEN Exp10(6) ELSE RMul(RInt(i), Exp10(6))]]

-----------------------------------------------------------------------------
(* get_ds (lines 202-277)                                                  *)

\* faulty variant: the sentinel becomes 0 instead of being masked
MaskMissing_zero(v) == IF v = MissingValue THEN Zero ELSE RInt(v)

\* ds.where(ds != MissingValue)
MaskMissing(v) == IF v = MissingValue THEN NaN ELSE RInt(v)

\* ds.where(ds['time.month'] == mm, drop=True) followed later by squeeze('time')
MonthIndex(mm) == CHOOSE t \in 1..Len(TimeMonths) : TimeMonths[t] = mm

\* faulty variant: the area is left in m2 instead of being converted to km2
ConvertUnits_m2(x, name, area, days) ==
    RDiv(RDiv(RMul(x, Exp10(9)), area), RInt(days * 24 * var_dict[name]))

\* lines 218-224
ConvertUnits(x, name, area, days) ==
    LET seconds == days * 24 * 3600
        hours == days * 24
    IN  IF name = "E_PM25"
        THEN RDiv(RDiv(RMul(x, Exp10(15)), area), RInt(seconds * 1))
        ELSE IF name \in {"E_NO", "E_SO2"}
        THEN RDiv(RDiv(RMul(x, Exp10(9)), RDiv(area, Exp10(6))), RInt(hours * var_dict[name]))
        ELSE x

\* the masked, month-subset, unit-converted sector fields: [kind][lat][lon]
SectorFields(inv, name, area, mm, days) ==
    [k \in Kinds |-> [i \in LatIdx |-> [j \in LonIdx |->
        ConvertUnits(MaskMissing(inv[k][MonthIndex(mm)][i][j]), name, area[i][j], days)]]]

\* table.sum(dim='hour')
TableSum(tab, k) == RSum([h \in Hours |-> tab[h][k]], HoursPerDay)

\* table = table/(table.sum(dim='hour')/24)
Normalize(raw) ==
    Eager([h \in Hours |-> [k \in Kinds |-> RInt(raw[h][k])]], LAMBDA t0 :
    Eager([k \in Kinds |-> RDiv(TableSum(t0, k), RInt(24))], LAMBDA div :
        [h \in Hours |-> [k \in Kinds |-> RDiv(t0[h][k], div[k])]]))

\* np.full((24, 5), 1)
DefaultTable == [h \in Hours |-> [k \in Kinds |-> RInt(1)]]

\* the try/except around genfromtxt
LoadTable(tk) == IF tk = "absent" THEN DefaultTable ELSE Normalize(RawTable(tk))

\* ds[name] = 0.;  for k in kind: ds[name] += ds[sector k] * table.sel(kind=k)
RECURSIVE Accumulate(_, _, _, _, _, _)
Accumulate(fields, tab, h, i, j, x) ==
    IF x = 0 THEN Zero
    ELSE RAdd(Accumulate(fields, tab, h, i, j, x - 1),
              RMul(fields[kind[x]][i][j], tab[h][kind[x]]))

\* faulty variant: the last sector of kind is left out of the sum
Disaggregate_skip(fields, tab) ==
    [h \in Hours |-> [i \in LatIdx |-> [j \in LonIdx |->
        Accumulate(fields, tab, h, i, j, Len(kind) - 1)]]]

Disaggregate(fields, tab) ==
    [h \in Hours |-> [i \in LatIdx |-> [j \in LonIdx |->
        Accumulate(fields, tab, h, i, j, Len(kind))]]]

Units(name) == IF name = "E_PM25" THEN "ug/m3 m/s" ELSE "mol km-2 hr-1"

get_ds(inv, name, area, mm, days, tk) ==
    Eager(SectorFields(inv, name, area, mm, days), LAMBDA fields :
    Eager(LoadTable(tk), LAMBDA tab :
        [data |-> Disaggregate(fields, tab), units |-> Units(name)]))

-----------------------------------------------------------------------------
(* get_info (lines 80-111): the target area.  Lengths are in km.           *)

DX == 60
DY == 60
SrcStep == 60
radius_of_influence == 100
neighbours == 10
fill_value == Zero

AreaDefinition(map_proj) ==
    [proj   |-> wrf_projs[map_proj],
     a      |-> 6370000,
     center |-> <<0, 0>>,
     radius |-> <<(TCols * DX) \div 2, (TRows * DY) \div 2>>,
     shape  |-> <<TRows, TCols>>]

\* projected coordinates of the centre of target pixel (r, c); row 1 is the northmost
TargetX(ad, c) == ad.center[1] - ad.radius[1] + (c - 1) * DX + (DX \div 2)
TargetY(ad, r) == ad.center[2] + ad.radius[2] - (r - 1) * DY - (DY \div 2)

\* projected coordinates of source pixel (i, j) of the swath; latitude index 1 is
\* the northmost (grid_northb first in calc_area)
SourceX(off, j) == (DX \div 2) - ((TCols * DX) \div 2) - off + (j - 1) * SrcStep
SourceY(off, i) == ((TRows * DY) \div 2) - (DY \div 2) + off - (i - 1) * SrcStep

Dist2(ad, off, r, c, p) ==
    LET dx == TargetX(ad, c) - SourceX(off, p[2])
        dy == TargetY(ad, r) - SourceY(off, p[1])
    IN  dx * dx + dy * dy

SourcePixels == LatIdx \X LonIdx

InRadius(ad, off, r, c) ==
    {p \in SourcePixels : Dist2(ad, off, r, c, p) <= radius_of_influence * radius_of_influence}

\* p comes before q in the kd-tree's order of neighbours of target pixel (r, c)
Closer(ad, off, r, c, p, q) ==
    LET dp == Dist2(ad, off, r, c, p)
        dq == Dist2(ad, off, r, c, q)
    IN  dp < dq \/ (dp = dq /\ (p[1] < q[1] \/ (p[1] = q[1] /\ p[2] < q[2])))

\* the k nearest source pixels within the radius
Nearest(ad, off, r, c, k) ==
    {p \in InRadius(ad, off, r, c) :
        Cardinality({q \in InRadius(ad, off, r, c) : Closer(ad, off, r, c, q, p)}) < k}

\* the source pixels in memory order
PixelAt(x) == <<((x - 1) \div NLon) + 1, ((x - 1) % NLon) + 1>>

RECURSIVE SumUpTo(_, _, _)
SumUpTo(S, f, x) ==
    IF x = 0 THEN Zero
    ELSE RAdd(SumUpTo(S, f, x - 1), IF PixelAt(x) \in S THEN f[PixelAt(x)] ELSE Zero)

\* sum of f over the pixels of S
SumOver(S, f) == SumUpTo(S, f, NLat * NLon)

\* the source pixels whose cell of the swath encloses target pixel (r, c), all four
\* corners being among the neighbours N
Enclosing(ad, off, r, c, N) ==
    {p \in N : /\ <<p[1] + 1, p[2]>> \in N
               /\ <<p[1], p[2] + 1>> \in N
               /\ <<p[1] + 1, p[2] + 1>> \in N
               /\ SourceX(off, p[2]) <= TargetX(ad, c)
               /\ TargetX(ad, c) <= SourceX(off, p[2] + 1)
               /\ SourceY(off, p[1]) >= TargetY(ad, r)
               /\ TargetY(ad, r) >= SourceY(off, p[1] + 1)}

\* what the kd-tree query yields for target pixel (r, c); it depends on the two
\* geometries only, not on the data of the hour
NeighbourInfo(ad, off, r, c) ==
    Eager(Nearest(ad, off, r, c, neighbours), LAMBDA N :
    Eager(Enclosing(ad, off, r, c, N), LAMBDA B :
        [nearest |-> Nearest(ad, off, r, c, 1),
         nbrs    |-> N,
         dist2   |-> [p \in N |-> Dist2(ad, off, r, c, p)],
         weight  |-> [p \in N |-> RDiv(RInt(1), RInt(Dist2(ad, off, r, c, p)))],
         wsum    |-> SumOver(N, [p \in N |-> RDiv(RInt(1), RInt(Dist2(ad, off, r, c, p)))]),
         boxes   |-> B,
         box     |-> IF B = {} THEN <<0, 0>>
                     ELSE CHOOSE q \in B : \A o \in B : q = o \/ Closer(ad, off, r, c, q, o),
         x       |-> TargetX(ad, c),
         y       |-> TargetY(ad, r)]))

\* pyresample.kd_tree.resample_nearest
resample_nearest(info, data) ==
    IF info.nearest = {} THEN fill_value
    ELSE LET p == CHOOSE q \in info.nearest : TRUE IN data[p[1]][p[2]]

\* pyresample.kd_tree.resample_custom with weight_funcs = 1/r**2
resample_custom(info, data) ==
    IF info.nbrs = {} THEN fill_value
    ELSE RDiv(SumOver(info.nbrs, [p \in info.nbrs |-> RMul(info.weight[p], data[p[1]][p[2]])]),
              info.wsum)

\* pyresample.bilinear.resample_bilinear
resample_bilinear(off, info, data) ==
    IF info.boxes = {} THEN fill_value
    ELSE LET p == info.box
             s == RDiv(RInt(info.x - SourceX(off, p[2])), RInt(SrcStep))
             t == RDiv(RInt(SourceY(off, p[1]) - info.y), RInt(SrcStep))
             s1 == RDiv(RInt(SourceX(off, p[2] + 1) - info.x), RInt(SrcStep))
             t1 == RDiv(RInt(info.y - SourceY(off, p[1] + 1)), RInt(SrcStep))
         IN  RAdd(RAdd(RMul(RMul(s1, t1), data[p[1]][p[2]]),
                       RMul(RMul(s, t1), data[p[1]][p[2] + 1])),
                  RAdd(RMul(RMul(s1, t), data[p[1] + 1][p[2]]),
                       RMul(RMul(s, t), data[p[1] + 1][p[2] + 1])))

\* faulty variant: the chain ends in an else, so an unknown method is resampled
ResampleSlice_default(method, off, info, data) ==
    IF method = "nearest"
    THEN <<[r \in 1..TRows |-> [c \in 1..TCols |-> resample_nearest(info[r][c], data)]]>>
    ELSE IF method = "idw"
    THEN <<[r \in 1..TRows |-> [c \in 1..TCols |-> resample_custom(info[r][c], data)]]>>
    ELSE <<[r \in 1..TRows |-> [c \in 1..TCols |-> resample_bilinear(off, info[r][c], data)]]>>

\* one pass of the loop body "for t in range(...)": the 2-d array appended for
\* one hour, or nothing when no branch of the if/elif chain matches
ResampleSlice(method, off, info, data) ==
    IF method = "nearest"
    THEN <<[r \in 1..TRows |-> [c \in 1..TCols |-> resample_nearest(info[r][c], data)]]>>
    ELSE IF method = "idw"
    THEN <<[r \in 1..TRows |-> [c \in 1..TCols |-> resample_custom(info[r][c], data)]]>>
    ELSE IF method = "bilinear"
    THEN <<[r \in 1..TRows |-> [c \in 1..TCols |-> resample_bilinear(off, info[r][c], data)]]>>
    ELSE <<>>

RECURSIVE ResampledList(_, _, _, _, _)
\* resampled_list after the first n hours
ResampledList(method, off, info, field, n) ==
    IF n = 0 THEN <<>>
    ELSE ResampledList(method, off, info, field, n - 1)
             \o ResampleSlice(method, off, info, field[n])

RECURSIVE ListLen(_, _, _, _, _)
\* len(resampled_list) after the first n hours
ListLen(method, off, info, field, n) ==
    IF n = 0 THEN 0
    ELSE ListLen(method, off, info, field, n - 1)
             + Len(ResampleSlice(method, off, info, field[n]))

\* faulty variant: the column axis is flipped instead of the row axis
StackFlip_cols(list) ==
    [t \in 1..Len(list) |->
        <<[r \in 1..TRows |-> [c \in 1..TCols |-> list[t][r][TCols + 1 - c]]]>>]

\* np.flip(np.rollaxis(np.dstack(list), -1), 1)[:, np.newaxis, ...]
\* result[Time][emissions_zdim][south_north][west_east]
StackFlip(list) ==
    [t \in 1..Len(list) |->
        <<[r \in 1..TRows |-> [c \in 1..TCols |-> list[t][TRows + 1 - r][c]]]>>]

-----------------------------------------------------------------------------
(* State of one run of vito(st, et, delta)                                 *)

VARIABLES
    pc,         \* the method __init__ runs next, "done", or "raised"
    conf,       \* the module-level settings resample_method and mm
    inp,        \* what read_vito found in the inventory file and hourly_factor.csv
    area_def,   \* self.area_def
    emi_area,   \* self.emi_area
    emi,        \* self.emi
    table,      \* the table get_ds built
    chemi,      \* self.chemi
    files,      \* the two wrfchemi files of output_dir
    stdout,     \* lines printed
    log,        \* logging.info records of replace_var
    error       \* the exception that ended the run, or "none"

vars == <<pc, conf, inp, area_def, emi_area, emi, table, chemi, files, stdout, log, error>>

dd == 25
days(mm) == monthrange(yyyy, mm)
FileNames == <<"wrfchemi_00z", "wrfchemi_12z">>
Replaced == {"E_NO", "E_SO2"}
BaselineVars == {"Times", "E_NO", "E_SO2", "E_CO", "E_PM25"}
None == <<>>

\* strftime('%Y-%m-%d_%H:%M:%S') of midnight of dd plus h hours
FormatTime(mm, h) == <<yyyy, mm, dd + (h \div 24), h % 24, 0, 0>>

\* a variable of a baseline file written by the upstream tool
BaselineVar(mm, f, v) ==
    IF v = "Times"
    THEN [t \in 1..HalfDay |-> FormatTime(mm, (f - 1) * HalfDay + t - 1)]
    ELSE [t \in 1..HalfDay |-> <<[r \in 1..TRows |-> [c \in 1..TCols |->
             RInt(100 * f + 10 * t + Len(v))]]>>]

Baseline(mm, f, exists) ==
    IF exists
    THEN [exists |-> TRUE, vars |-> [v \in BaselineVars |-> BaselineVar(mm, f, v)]]
    ELSE [exists |-> FALSE, vars |-> None]

Init ==
    /\ pc = "get_info"
    /\ \E m \in MethodInputs, mo \in MonthInputs :
          conf = [resample_method |-> m, mm |-> mo]
    /\ \E x \in [1..Len(FileNames) -> BOOLEAN] :
          files = [f \in 1..Len(FileNames) |-> Baseline(conf.mm, f, x[f])]
    /\ inp = None /\ area_def = None /\ emi_area = None /\ emi = None
    /\ table = None /\ chemi = None
    /\ stdout = <<>> /\ log = <<>> /\ error = "none"

\* lines 80-111; wrf_projs[attrs['MAP_PROJ']] raises KeyError for an unknown code
get_info ==
    /\ pc = "get_info"
    /\ \E mp \in MapProjInputs :
          IF mp \in DOMAIN wrf_projs
          THEN /\ area_def' = AreaDefinition(mp)
               /\ pc' = "read_vito"
               /\ error' = error
          ELSE /\ area_def' = area_def
               /\ pc' = "raised"
               /\ error' = "KeyError"
    /\ UNCHANGED <<conf, inp, emi_area, emi, table, chemi, files, stdout, log>>

\* lines 113-147: calc_area once, then get_ds for every species of var_dict
read_vito ==
    /\ pc = "read_vito"
    /\ \E p \in DataInputs, tk \in TableInputs :
          /\ inp' = [data |-> p, off |-> p.off, table |-> tk]
          /\ emi_area' = AreaField(p.area)
          /\ table' = LoadTable(tk)
          /\ emi' = [name \in DOMAIN var_dict |->
                        get_ds(Inventory(p, name), name, AreaField(p.area),
                               conf.mm, days(conf.mm), tk)]
    /\ pc' = "resample_WRF"
    /\ UNCHANGED <<conf, area_def, chemi, files, stdout, log, error>>

\* list(self.perdelta(st, et, timedelta(hours=1))) converted to date strings
Times(mm, st, et) ==
    [x \in 1..(IF et >= st THEN et - st + 1 ELSE 0) |-> FormatTime(mm, st + x - 1)]

\* faulty variant: the 'Time' sizes are never compared
ConflictingSizes_never(ds, n) == FALSE

\* xarray refuses a variable whose 'Time' length n differs from the dataset's
ConflictingSizes(ds, n) == n # Len(ds.Times)

\* one pass of "for vname in self.emi.data_vars" on the dataset c
ResampleVar(c, vname, method, off, info, field) ==
    LET len == ListLen(method, off, info, field.data, Len(field.data))
    IN  IF len = 0
        THEN [chemi |-> c, error |-> "ValueError"]       \* np.dstack of an empty list
        ELSE IF ConflictingSizes(c, len)
        THEN [chemi |-> c, error |-> "ValueError"]       \* self.chemi[vname] = ...
        ELSE [chemi |-> [v \in DOMAIN c \cup {vname} |->
                            IF v = vname
                            THEN [data  |-> Eager(ResampledList(method, off, info, field.data,
                                                                Len(field.data)), StackFlip),
                                  units |-> field.units]
                            ELSE c[v]],
              error |-> "none"]

RECURSIVE ResampleVars(_, _, _, _, _, _)
\* self.chemi after the first n species, or the exception that stopped the loop
ResampleVars(c, n, method, off, info, e) ==
    IF n = 0 THEN [chemi |-> c, error |-> "none"]
    ELSE Eager(ResampleVars(c, n - 1, method, off, info, e), LAMBDA prev :
             IF prev.error # "none" THEN prev
             ELSE ResampleVar(prev.chemi, var_names[n], method, off, info, e[var_names[n]]))

\* the body of resample_WRF: self.chemi starts as the Times variable alone
resample(cf, st, et, ad, off, e) ==
    Eager([r \in 1..TRows |-> [c \in 1..TCols |-> NeighbourInfo(ad, off, r, c)]],
          LAMBDA info :
              ResampleVars([v \in {"Times"} |-> Times(cf.mm, st, et)],
                           Len(var_names), cf.resample_method, off, info, e))

\* lines 286-379, called with st and et in hours from midnight of day dd
resample_WRF ==
    /\ pc = "resample_WRF"
    /\ \E et \in (maxhour - 1)..MaxEt :
       \E res \in {resample(conf, minhour, et, area_def, inp.off, emi)} :
           /\ chemi' = res.chemi
           /\ error' = res.error
           /\ pc' = IF res.error = "none" THEN "replace_var" ELSE "raised"
    /\ UNCHANGED <<conf, inp, area_def, emi_area, emi, table, files, stdout, log>>

\* faulty variant: the second window starts at hour 11
tindex_overlap == <<[x \in 1..HalfDay |-> x - 1], [x \in 1..HalfDay |-> HalfDay + x - 2]>>

\* tindex = [np.arange(12), np.arange(12, 24, 1)]
tindex == <<[x \in 1..HalfDay |-> x - 1], [x \in 1..HalfDay |-> HalfDay + x - 1]>>

\* DataArray.isel(Time=idx) on a variable of self.chemi
isel(var, idx) == [x \in 1..Len(idx) |-> var.data[idx[x] + 1]]
IndexError(var, idx) == \E x \in 1..Len(idx) : idx[x] >= Len(var.data)

\* the variables the loop body assigns into the opened baseline
Assigned == Replaced

\* faulty variant: the written file holds the assigned variables only
MergeFile_only(file, c, index) ==
    [file EXCEPT !.vars = [v \in Assigned |-> isel(c[v], tindex[index])]]

\* the body of "for index, file in enumerate(...)" for an existing file
MergeFile(file, c, index) ==
    [file EXCEPT !.vars = [v \in DOMAIN file.vars \cup Assigned |->
                              IF v \in Assigned THEN isel(c[v], tindex[index])
                              ELSE file.vars[v]]]

RECURSIVE ReplaceFiles(_, _, _)
\* files, printed lines and exception after the first n passes of the loop
ReplaceFiles(fs, c, n) ==
    IF n = 0 THEN [files |-> fs, stdout |-> <<>>, error |-> "none"]
    ELSE Eager(ReplaceFiles(fs, c, n - 1), LAMBDA prev :
             IF prev.error # "none" THEN prev
             ELSE IF ~prev.files[n].exists
             THEN [prev EXCEPT !.stdout = Append(@, "!!! Please run mozcart.py first !!!")]
             ELSE IF \E v \in Assigned : IndexError(c[v], tindex[n])
             THEN [prev EXCEPT !.error = "IndexError"]
             ELSE [prev EXCEPT !.files[n] = MergeFile(@, c, n)])

\* lines 381-413
replace_var ==
    /\ pc = "replace_var"
    /\ \E res \in {ReplaceFiles(files, chemi, Len(FileNames))} :
           /\ files' = res.files
           /\ stdout' = stdout \o res.stdout
           /\ error' = res.error
           /\ IF res.error = "none"
              THEN /\ log' = Append(log, "----- Successfully -----")
                   /\ pc' = "done"
              ELSE /\ log' = log
                   /\ pc' = "raised"
    /\ UNCHANGED <<conf, inp, area_def, emi_area, emi, table, chemi>>

Next == get_info \/ read_vito \/ resample_WRF \/ replace_var

Spec == Init /\ [][Next]_vars

-----------------------------------------------------------------------------
(* Properties                                                              *)

\* read_vito has just returned: self.emi holds the hourly fluxes
HasEmi == pc = "resample_WRF"
HasChemi == DOMAIN chemi # {}

\* the converted sector fields get_ds disaggregated for species name
FieldsOf(name) ==
    SectorFields(Inventory(inp.data, name), name, emi_area, conf.mm, days(conf.mm))

\* sum over the five sectors of the converted fields of one cell
SectorSum(name, i, j) ==
    RSum([x \in 1..Len(types) |-> FieldsOf(name)[types[x]][i][j]], Len(types))

\* sum over the day of the hourly flux of one cell
DaySum(name, i, j) ==
    RSum([h \in Hours |-> emi[name].data[h][i][j]], HoursPerDay)

MeanOne == \A k \in Kinds : REq(TableSum(table, k), RInt(24))

\* v rounds to m * 10^k  (m - 1/2 <= v / 10^k < m + 1/2); magnitudes more than
\* eight decades apart are told apart without forming the product
Approx(v, m, k) ==
    LET sh == v.e - k
    IN  IF sh >= 0
        THEN /\ sh <= 8
             /\ (2 * m - 1) * v.d <= 2 * v.n * Pow10(sh)
             /\ 2 * v.n * Pow10(sh) < (2 * m + 1) * v.d
        ELSE /\ -sh <= 8
             /\ (2 * m - 1) * v.d * Pow10(-sh) <= 2 * v.n
             /\ 2 * v.n < (2 * m + 1) * v.d * Pow10(-sh)

\* the window of self.chemi[v] that belongs to file f
Window(v, f) == [x \in 1..HalfDay |-> chemi[v].data[(f - 1) * HalfDay + x]]

Untouched(f) == files[f] = Baseline(conf.mm, f, files[f].exists)

\* C1: after a 24-hour field is split, window A is hours 0..11 and window B is
\* hours 12..23, each in increasing order, disjoint and together covering 0..23,
\* and the 00z file receives window A and the 12z file window B.
C1_WindowsPartitionDay ==
    /\ tindex[1] = [x \in 1..12 |-> x - 1]
    /\ tindex[2] = [x \in 1..12 |-> x + 11]
    /\ {tindex[1][x] : x \in 1..12} \cap {tindex[2][x] : x \in 1..12} = {}
    /\ {tindex[1][x] : x \in 1..12} \cup {tindex[2][x] : x \in 1..12} = 0..23
    /\ pc = "done" =>
          \A f \in 1..2 : files[f].exists =>
              \A v \in {"E_NO", "E_SO2"} :
                  /\ Len(files[f].vars[v]) = 12
                  /\ \A x \in 1..12 :
                        files[f].vars[v][x] = chemi[v].data[(f - 1) * 12 + x]

C1_Witness ==
    /\ pc = "done"
    /\ files[1].exists /\ files[2].exists
    /\ chemi["E_NO"].data[1] # chemi["E_NO"].data[13]
    /\ files[1].vars["E_NO"][1] = chemi["E_NO"].data[1]
    /\ files[2].vars["E_NO"][1] = chemi["E_NO"].data[13]

C3_MissingBaselineFails ==
    \A f \in 1..2 :
        ~files[f].exists => /\ pc # "done"
                            /\ log = <<>>
                            /\ (stdout # <<>> => error # "none")

\* the run that refutes C3: the 12z baseline is missing, the message is printed,
\* nothing is raised and the run logs success; the 00z baseline is merged
C3_Witness ==
    /\ pc = "done"
    /\ files[1].exists /\ ~files[2].exists
    /\ stdout = <<"!!! Please run mozcart.py first !!!">>
    /\ log = <<"----- Successfully -----">>
    /\ error = "none"
    /\ files[2] = Baseline(conf.mm, 2, FALSE)
    /\ files[1].vars["E_NO"] = Window("E_NO", 1)

C5_AnyLoadedTableMeanOne ==
    (HasEmi /\ inp.table # "absent") =>
        \A k \in Kinds : REq(TableSum(table, k), RInt(24))

\* the table that refutes C5: the raw Fires column is all zero, line 239 divides
\* 0 by 0, and the factors of that sector, and with them every flux, are NaN
C5_Witness ==
    /\ HasEmi
    /\ inp.table = "zerocol"
    /\ \A h \in Hours : RawTable("zerocol")[h]["Fires"] = 0
    /\ \A h \in Hours : IsNaN(table[h]["Fires"])
    /\ REq(TableSum(table, "Industry"), RInt(24))
    /\ \A h \in Hours : IsNaN(emi["E_NO"].data[h][NLat][NLon])

\* C5 restricted to the sectors normalization can serve: a sector whose raw
\* factors have a positive sum has 24 factors that sum to 24.
PositiveSectorsMeanOne ==
    (HasEmi /\ inp.table # "absent") =>
        \A k \in Kinds :
            TableSum([h \in Hours |-> [q \in Kinds |-> RInt(RawTable(inp.table)[h][q])]], k)
                # Zero
            => REq(TableSum(table, k), RInt(24))

\* C6 as stated: for every cell the sum over the 24 hours of the hourly flux equals
\* the sum over the five sectors of the cell's sector fields, for mean-1 tables.
C6_DaySumIsSectorSum ==
    (HasEmi /\ MeanOne) =>
        \A name \in DOMAIN emi : \A i \in LatIdx : \A j \in LonIdx :
            REq(DaySum(name, i, j), SectorSum(name, i, j))

\* C6: for every cell the sum over the 24 hours of the hourly flux equals 24 times
\* the sum over the five sectors (the 24-hour mean is the sector sum), for mean-1
\* tables; an absent cell is absent on both sides.
C6_DaySumIs24SectorSums ==
    (HasEmi /\ MeanOne) =>
        \A name \in DOMAIN emi : \A i \in LatIdx : \A j \in LonIdx :
            REq(DaySum(name, i, j), RMul(RInt(24), SectorSum(name, i, j)))

C6_Witness ==
    /\ HasEmi /\ MeanOne
    /\ inp.table = "ramp"
    /\ IsFinite(SectorSum("E_SO2", NLat, NLon))
    /\ ~REq(SectorSum("E_SO2", NLat, NLon), Zero)
    /\ ~REq(emi["E_SO2"].data[1][NLat][NLon], emi["E_SO2"].data[24][NLat][NLon])

\* the scenario of C7: uniform area 1e6 m^2, Industry 10, other sectors 0, no
\* hourly_factor.csv, a 30-day month
Scenario ==
    /\ HasEmi
    /\ inp.data = [ind |-> 10, oth |-> 0, miss |-> "none", area |-> "uniform", off |-> 0]
    /\ inp.table = "absent"
    /\ days(conf.mm) = 30

Expected == RDiv(RDiv(RMul(RInt(10), Exp10(9)), RDiv(Exp10(6), Exp10(6))), RInt(720 * 14))

\* C7 as stated: in the scenario the NOx flux of every cell and hour equals
\* 10 x 1e9 / (1e6/1e6) / (720 x 14), which is approximately 0.992.
C7_FluxIsAbout0992 ==
    Scenario =>
        \A h \in Hours : \A i \in LatIdx : \A j \in LonIdx :
            /\ REq(emi["E_NO"].data[h][i][j], Expected)
            /\ Approx(emi["E_NO"].data[h][i][j], 992, -3)

\* C7: in the scenario the NOx flux of every cell and hour equals
\* 10 x 1e9 / (1e6/1e6) / (720 x 14) = 1e10/10080, which is approximately 9.92e5
\* (992063.49) mol km-2 hr-1, the same for all 24 hours.
C7_FluxIsAbout992063 ==
    Scenario =>
        \A h \in Hours : \A i \in LatIdx : \A j \in LonIdx :
            /\ REq(emi["E_NO"].data[h][i][j], Expected)
            /\ REq(emi["E_NO"].data[h][i][j], RDiv(Exp10(10), RInt(10080)))
            /\ Approx(emi["E_NO"].data[h][i][j], 992, 3)
            /\ Floor(emi["E_NO"].data[h][i][j]) = 992063

C7_Witness ==
    /\ Scenario
    /\ emi["E_NO"].units = "mol km-2 hr-1"
    /\ Floor(emi["E_NO"].data[1][1][1]) = 992063
    /\ emi["E_NO"].data[1] = emi["E_NO"].data[24]

\* C8: with a resample method outside {nearest, idw, bilinear} the run fails: no
\* resampled field is produced for any species and no baseline is modified.
C8_UnknownMethodFails ==
    conf.resample_method \notin {"nearest", "idw", "bilinear"} =>
        /\ pc \notin {"replace_var", "done"}
        /\ \A f \in 1..2 : Untouched(f)
        /\ HasChemi => /\ DOMAIN chemi = {"Times"}
                       /\ pc = "raised"
                       /\ error # "none"

C8_Witness ==
    /\ conf.resample_method = "cubic"
    /\ HasChemi
    /\ Len(chemi.Times) = 24
    /\ files[1].exists
    /\ pc = "raised"

\* C9: a cell whose value in any of the five sectors equals the missing-value
\* sentinel is absent after masking and unit conversion, and its hourly flux is
\* absent for every hour 0..23, never 0 or the sum of the other sectors.
C9_MissingStaysAbsent ==
    HasEmi =>
        \A name \in DOMAIN emi : \A i \in LatIdx : \A j \in LonIdx : \A k \in Kinds :
            Inventory(inp.data, name)[k][MonthIndex(conf.mm)][i][j] = MissingValue =>
                /\ IsNaN(FieldsOf(name)[k][i][j])
                /\ \A h \in Hours : IsNaN(emi[name].data[h][i][j])

C9_Witness ==
    /\ HasEmi
    /\ inp.data.miss = "Traffic"
    /\ Inventory(inp.data, "E_NO")["Traffic"][MonthIndex(conf.mm)][1][1] = MissingValue
    /\ Inventory(inp.data, "E_NO")["Industry"][MonthIndex(conf.mm)][1][1] # MissingValue
    /\ IsNaN(emi["E_NO"].data[1][1][1])
    /\ IsFinite(emi["E_NO"].data[1][NLat][NLon])

\* the neighbour information resample_WRF computes for the target grid
InfoOf ==
    [r \in 1..TRows |-> [c \in 1..TCols |-> NeighbourInfo(area_def, inp.off, r, c)]]

\* the 2-d array resampled from hour h of species v
SliceOf(info, v, h) ==
    ResampleSlice(conf.resample_method, inp.off, info, emi[v].data[h])[1]

\* C10: the stacked output keeps the hours in order and mirrors the rows only:
\* output[h][r][c] is the resampled slice of hour h at row rows-1-r, column c.
C10_RowsMirroredHoursKept ==
    pc = "replace_var" =>
        Eager(InfoOf, LAMBDA info :
            \A v \in {"E_NO", "E_SO2"} :
                /\ Len(chemi[v].data) = 24
                /\ \A h \in Hours : \A r \in 1..TRows : \A c \in 1..TCols :
                      chemi[v].data[h][1][r][c] = SliceOf(info, v, h)[TRows + 1 - r][c])

C10_Witness ==
    /\ pc = "replace_var"
    /\ conf.resample_method = "nearest"
    /\ chemi["E_NO"].data[1] # chemi["E_NO"].data[2]
    /\ chemi["E_NO"].data[1][1][1] # chemi["E_NO"].data[1][1][TRows]
    /\ chemi["E_NO"].data[1][1][1][1] # chemi["E_NO"].data[1][1][1][TCols]
    /\ chemi["E_NO"].data[1][1][1] = SliceOf(InfoOf, "E_NO", 1)[TRows]

====
